---- MODULE Spec2Model ----
(***************************************************************************)
(* HeroService (src/src/app/hero.service.ts): seven RxJS pipelines over    *)
(* the Apollo gateway.  Each pipeline is                                   *)
(*     source -> map(result => result.data.<field>) -> tap(log) ->         *)
(*     catchError(handleError(label, default))                             *)
(* The model has one reading caller (the watchQuery operations) and one    *)
(* writing caller (the mutate operations), the remote store behind the     *)
(* gateway, the gateway's cached result for the watched query, and the     *)
(* MessageService log.                                                     *)
(***************************************************************************)
EXTENDS Integers, Sequences, FiniteSets, TLC

VARIABLES store, cache, subs, messages

vars == <<store, cache, subs, messages>>

\* ------------------------------------------------------------------ bounds
MaxId == 2          \* ids the remote store can hold are 1..MaxId
MaxTermLen == 2     \* search terms have at most this many characters
MaxInbox == 1       \* cache notifications waiting for one subscriber
MaxEmit == 3        \* results one subscription is followed for

Ids == 1..MaxId
Chars == {" ", "a"}
Names == {<<"a">>, <<"b">>}
Terms == UNION {[1..n -> Chars] : n \in 0..MaxTermLen}
NoName == <<>>

\* ------------------------------------------------------- JavaScript values
Undefined == [t |-> "undefined"]
Null == [t |-> "null"]
HeroV(i, n) == [t |-> "hero", id |-> i, name |-> n]
ListV(s) == [t |-> "list", items |-> s]
BoolV(b) == [t |-> "bool", b |-> b]

\* `h ? a : b` : objects and arrays are truthy, null/undefined/false are not
Truthy(v) == v.t \in {"hero", "list"} \/ (v.t = "bool" /\ v.b)

\* reading a property of null or undefined throws a TypeError
Nullish(v) == v.t \in {"undefined", "null"}

\* `${id}` and `"${term}"` inside template strings
RECURSIVE Join(_)
Join(s) == IF s = <<>> THEN "" ELSE Head(s) \o Join(Tail(s))

RECURSIVE TrimStart(_)
TrimStart(s) ==
  IF s # <<>> /\ Head(s) = " " THEN TrimStart(Tail(s)) ELSE s

RECURSIVE TrimEnd(_)
TrimEnd(s) ==
  IF s # <<>> /\ s[Len(s)] = " " THEN TrimEnd(SubSeq(s, 1, Len(s) - 1)) ELSE s

\* fault: the guard tests `!term`, without trim()
trimNothing(s) == s

\* String.prototype.trim as searchHeroes uses it
trim(s) == TrimEnd(TrimStart(s))

\* ------------------------------------------------------------ the operations
Slots == {"reader", "writer"}

\* the argument a caller passes; fields an operation does not use are unset
NoArg == [num |-> FALSE, id |-> 0, name |-> NoName, term |-> <<>>]
IdArg(i) == [NoArg EXCEPT !.num = TRUE, !.id = i]
TermArg(q) == [NoArg EXCEPT !.term = q]
HeroArg(i, n) == [NoArg EXCEPT !.id = i, !.name = n]

\* the gql documents and the request descriptor handed to the gateway
Descriptor(kind, doc, field, defined, a) ==
  [kind |-> kind, doc |-> doc, field |-> field, defined |-> defined,
   id |-> IF "id" \in defined THEN a.id ELSE 0,
   q |-> IF "q" \in defined THEN a.term ELSE <<>>,
   name |-> IF "input" \in defined THEN a.name ELSE NoName]

\* deleteHero: const id = typeof hero === 'number' ? hero : hero.id
deleteId(a) == IF a.num THEN a.id ELSE a.id

\* fault: searchHeroes sends the trimmed term
RequestTrimmed(op, a) ==
  CASE op = "getHeroes" -> Descriptor("watchQuery", "heroesQuery", "heroes", {}, a)
    [] op = "getHeroNo404" -> Descriptor("watchQuery", "heroQuery", "hero", {}, a)
    [] op = "getHero" -> Descriptor("watchQuery", "heroQuery", "hero", {"id"}, a)
    [] op = "searchHeroes" ->
         Descriptor("watchQuery", "searchQuery", "search", {"q"}, [a EXCEPT !.term = trim(a.term)])
    [] op = "addHero" -> Descriptor("mutate", "addHero", "addHero", {"input"}, a)
    [] op = "deleteHero" ->
         Descriptor("mutate", "deleteHero", "deleteHero", {"id"}, [a EXCEPT !.id = deleteId(a)])
    [] op = "updateHero" ->
         Descriptor("mutate", "updateHero", "updateHero", {"id", "input"}, a)

Request(op, a) ==
  CASE op = "getHeroes" -> Descriptor("watchQuery", "heroesQuery", "heroes", {}, a)
    [] op = "getHeroNo404" -> Descriptor("watchQuery", "heroQuery", "hero", {}, a)
    [] op = "getHero" -> Descriptor("watchQuery", "heroQuery", "hero", {"id"}, a)
    [] op = "searchHeroes" -> Descriptor("watchQuery", "searchQuery", "search", {"q"}, a)
    [] op = "addHero" -> Descriptor("mutate", "addHero", "addHero", {"input"}, a)
    [] op = "deleteHero" ->
         Descriptor("mutate", "deleteHero", "deleteHero", {"id"}, [a EXCEPT !.id = deleteId(a)])
    [] op = "updateHero" ->
         Descriptor("mutate", "updateHero", "updateHero", {"id", "input"}, a)

\* variables the documents declare non-null ($id: Int!)
Required(doc) ==
  IF doc \in {"heroQuery", "deleteHero", "updateHero"} THEN {"id"} ELSE {}

Valid(d) == Required(d.doc) \subseteq d.defined

\* ------------------------------------------------------- the remote schema
RECURSIVE HeroesFrom(_, _)
HeroesFrom(st, i) ==
  IF i > MaxId THEN <<>>
  ELSE (IF st[i] = NoName THEN <<>> ELSE <<HeroV(i, st[i])>>) \o HeroesFrom(st, i + 1)

Contains(n, q) ==
  \E k \in 0..(Len(n) - Len(q)) : SubSeq(n, k + 1, k + Len(q)) = q

RECURSIVE Matching(_, _)
Matching(hs, q) ==
  IF hs = <<>> THEN <<>>
  ELSE (IF Contains(Head(hs).name, q) THEN <<Head(hs)>> ELSE <<>>) \o Matching(Tail(hs), q)

FreeIds(st) == {i \in Ids : st[i] = NoName}
NewId(st) == CHOOSE i \in FreeIds(st) : \A j \in FreeIds(st) : i <= j

\* the value of data.<field> the remote schema answers a valid request with
Resolve(d, st) ==
  CASE d.doc = "heroesQuery" -> ListV(HeroesFrom(st, 1))
    [] d.doc = "heroQuery" ->
         IF d.id \in Ids /\ st[d.id] # NoName THEN HeroV(d.id, st[d.id]) ELSE Null
    [] d.doc = "searchQuery" -> ListV(Matching(HeroesFrom(st, 1), d.q))
    [] d.doc = "addHero" -> HeroV(NewId(st), d.name)
    [] d.doc = "deleteHero" -> BoolV(d.id \in Ids /\ st[d.id] # NoName)
    [] d.doc = "updateHero" ->
         IF d.id \in Ids /\ st[d.id] # NoName THEN HeroV(d.id, d.name) ELSE Null

\* the remote store after the request
Apply(d, st) ==
  CASE d.doc = "addHero" -> [st EXCEPT ![NewId(st)] = d.name]
    [] d.doc = "deleteHero" -> IF d.id \in Ids THEN [st EXCEPT ![d.id] = NoName] ELSE st
    [] d.doc = "updateHero" ->
         IF d.id \in Ids /\ st[d.id] # NoName THEN [st EXCEPT ![d.id] = d.name] ELSE st
    [] OTHER -> st

\* ---------------------------------------------------- the result envelope
NullData == [hasData |-> FALSE, field |-> "", value |-> Undefined]
NoField == [hasData |-> TRUE, field |-> "", value |-> Undefined]
Data(f, v) == [hasData |-> TRUE, field |-> f, value |-> v]

ErrorEv(detail) == [k |-> "error", detail |-> detail]
NextEv(env) == [k |-> "next", env |-> env]
CompleteEv == [k |-> "complete"]

Outcomes == {"network", "graphql", "invalid", "nullData", "noField", "ok"}

\* ------------------------------------------------------------ the pipelines
Returned(v) == [threw |-> FALSE, v |-> v]
Threw == [threw |-> TRUE, v |-> Undefined]

\* result.data.<f>
Prop(env, f) ==
  IF ~env.hasData THEN Threw
  ELSE Returned(IF env.field = f THEN env.value ELSE Undefined)

\* xs[0]
First(r) ==
  IF r.threw \/ Nullish(r.v) THEN Threw
  ELSE IF r.v.t = "list" /\ r.v.items # <<>> THEN Returned(r.v.items[1])
  ELSE Returned(Undefined)

\* fault: getHero maps result.data.heroes[0], as getHeroNo404 does
MapStageAliased(op, env) ==
  CASE op = "getHeroes" -> Prop(env, "heroes")
    [] op \in {"getHeroNo404", "getHero"} -> First(Prop(env, "heroes"))
    [] OTHER -> Prop(env, IF op = "searchHeroes" THEN "search" ELSE op)

\* fault: getHeroes maps result.data, not result.data.heroes
MapStageWhole(op, env) ==
  CASE op = "getHeroes" -> Returned(IF env.hasData THEN [t |-> "object"] ELSE Null)
    [] op = "getHeroNo404" -> First(Prop(env, "heroes"))
    [] op = "getHero" -> Prop(env, "hero")
    [] OTHER -> Prop(env, IF op = "searchHeroes" THEN "search" ELSE op)

\* the map(result => ...) stage of each operation
MapStage(op, env) ==
  CASE op = "getHeroes" -> Prop(env, "heroes")
    [] op = "getHeroNo404" -> First(Prop(env, "heroes"))
    [] op = "getHero" -> Prop(env, "hero")
    [] op = "searchHeroes" -> Prop(env, "search")
    [] op = "addHero" -> Prop(env, "addHero")
    [] op = "deleteHero" -> Prop(env, "deleteHero")
    [] op = "updateHero" -> Prop(env, "updateHero")

\* private log(message)
log(message) == <<"HeroService: ">> \o message

\* fault: the outcome ignores h
OutcomeFetched(h) == "fetched"

Outcome(h) == IF Truthy(h) THEN "fetched" ELSE "did not find"

\* the tap(...) stage of each operation: the diagnostic it records, or a throw
TapStage(op, a, v) ==
  CASE op = "getHeroes" -> Returned(log(<<"fetched heroes">>))
    [] op \in {"getHeroNo404", "getHero"} ->
         Returned(log(<<Outcome(v), " hero id=", ToString(a.id)>>))
    [] op = "searchHeroes" ->
         Returned(log(<<"found heroes matching \"", Join(a.term), "\"">>))
    [] op = "addHero" ->
         IF Nullish(v) THEN Threw
         ELSE Returned(log(<<"added hero w/ id=",
                             IF v.t = "hero" THEN ToString(v.id) ELSE "undefined">>))
    [] op = "deleteHero" -> Returned(log(<<"deleted hero id=", ToString(deleteId(a))>>))
    [] op = "updateHero" -> Returned(log(<<"updated hero id=", ToString(a.id)>>))

\* the first argument each operation gives to handleError
ErrorLabel(op, a) ==
  CASE op = "getHeroes" -> <<"getHeroes">>
    [] op = "getHeroNo404" -> <<"getHero", " id=", ToString(a.id)>>
    [] op = "getHero" -> <<"getHero", " id=", ToString(a.id)>>
    [] op = "searchHeroes" -> <<"searchHeroes">>
    [] op = "addHero" -> <<"addHero">>
    [] op = "deleteHero" -> <<"deleteHero">>
    [] op = "updateHero" -> <<"addHero">>

\* fault: null as the default of every operation
ErrorResultNull(op) == Null

\* the second argument each operation gives to handleError
ErrorResult(op) ==
  IF op \in {"getHeroes", "searchHeroes"} THEN ListV(<<>>) ELSE Undefined

Emit(v) == [e |-> "next", v |-> v]
Done == [e |-> "complete", v |-> Undefined]
Fail == [e |-> "error", v |-> Undefined]

\* fault: the handler logs and rethrows
handleErrorRethrow(operation, result, detail) ==
  [outs |-> <<Fail>>,
   msgs |-> <<log(operation \o <<" failed: ", detail>>)>>,
   alive |-> FALSE]

\* handleError(operation, result)(error): log, then of(result)
handleError(operation, result, detail) ==
  [outs |-> <<Emit(result), Done>>,
   msgs |-> <<log(operation \o <<" failed: ", detail>>)>>,
   alive |-> FALSE]

TypeError == "TypeError"

\* fault: take(1) in the pipeline, the stream completes after one result
PipeOnce(op, a, ev) ==
  IF ev.k = "error" THEN handleError(ErrorLabel(op, a), ErrorResult(op), ev.detail)
  ELSE IF ev.k = "complete" THEN [outs |-> <<Done>>, msgs |-> <<>>, alive |-> FALSE]
  ELSE LET m == MapStage(op, ev.env)
           t == TapStage(op, a, m.v)
       IN IF m.threw \/ t.threw
          THEN handleError(ErrorLabel(op, a), ErrorResult(op), TypeError)
          ELSE [outs |-> <<Emit(m.v), Done>>, msgs |-> <<t.v>>, alive |-> FALSE]

\* one source event through map, tap and catchError
Pipe(op, a, ev) ==
  IF ev.k = "error" THEN handleError(ErrorLabel(op, a), ErrorResult(op), ev.detail)
  ELSE IF ev.k = "complete" THEN [outs |-> <<Done>>, msgs |-> <<>>, alive |-> FALSE]
  ELSE LET m == MapStage(op, ev.env)
           t == TapStage(op, a, m.v)
       IN IF m.threw \/ t.threw
          THEN handleError(ErrorLabel(op, a), ErrorResult(op), TypeError)
          ELSE [outs |-> <<Emit(m.v)>>, msgs |-> <<t.v>>, alive |-> TRUE]

\* --------------------------------------------------------------- the state
Idle == [op |-> "none", arg |-> NoArg, st |-> "idle", reqs |-> <<>>,
         src |-> <<>>, inbox |-> <<>>, out |-> <<>>]

Init ==
  /\ store = [i \in Ids |-> IF i = 1 THEN <<"a">> ELSE NoName]
  /\ cache = Undefined
  /\ subs = [s \in Slots |-> Idle]
  /\ messages = <<>>

\* the subscriptions after slot s called op(a) and the request went out
Call(s, op, a) ==
  [subs EXCEPT ![s] = [Idle EXCEPT !.op = op, !.arg = a, !.st = "waiting",
                                   !.reqs = <<Request(op, a)>>]]

getHeroes ==
  /\ subs["reader"].st = "idle"
  /\ subs' = Call("reader", "getHeroes", NoArg)
  /\ UNCHANGED <<store, cache, messages>>

getHeroNo404 ==
  /\ subs["reader"].st = "idle"
  /\ \E i \in Ids : subs' = Call("reader", "getHeroNo404", IdArg(i))
  /\ UNCHANGED <<store, cache, messages>>

getHero ==
  /\ subs["reader"].st = "idle"
  /\ \E i \in Ids : subs' = Call("reader", "getHero", IdArg(i))
  /\ UNCHANGED <<store, cache, messages>>

\* if (!term.trim()) return of([]);
searchHeroes ==
  /\ subs["reader"].st = "idle"
  /\ \E q \in Terms :
       subs' = IF trim(q) = <<>>
               THEN [subs EXCEPT !["reader"] =
                       [Idle EXCEPT !.op = "searchHeroes", !.arg = TermArg(q), !.st = "done",
                                    !.out = <<Emit(ListV(<<>>)), Done>>]]
               ELSE Call("reader", "searchHeroes", TermArg(q))
  /\ UNCHANGED <<store, cache, messages>>

addHero ==
  /\ subs["writer"].st = "idle"
  /\ \E n \in Names : subs' = Call("writer", "addHero", HeroArg(0, n))
  /\ UNCHANGED <<store, cache, messages>>

deleteHero ==
  /\ subs["writer"].st = "idle"
  /\ \E i \in Ids :
       \/ subs' = Call("writer", "deleteHero", IdArg(i))
       \/ \E n \in Names : subs' = Call("writer", "deleteHero", HeroArg(i, n))
  /\ UNCHANGED <<store, cache, messages>>

updateHero ==
  /\ subs["writer"].st = "idle"
  /\ \E i \in Ids, n \in Names : subs' = Call("writer", "updateHero", HeroArg(i, n))
  /\ UNCHANGED <<store, cache, messages>>

\* the source events a gateway outcome produces for request d
SourceEvents(d, o, st) ==
  LET first == CASE o = "network" -> <<ErrorEv("Network error")>>
                 [] o = "graphql" -> <<ErrorEv("GraphQL error")>>
                 [] o = "invalid" -> <<ErrorEv("Variable \"$id\" of required type \"Int!\" was not provided.")>>
                 [] o = "nullData" -> <<NextEv(NullData)>>
                 [] o = "noField" -> <<NextEv(NoField)>>
                 [] o = "ok" -> <<NextEv(Data(d.field, Resolve(d, st)))>>
  IN IF d.kind = "mutate" /\ o \in {"nullData", "noField", "ok"}
     THEN first \o <<CompleteEv>>
     ELSE first

\* the events of evs through the pipeline, until it terminates
RECURSIVE Run(_, _, _)
Run(op, a, evs) ==
  IF evs = <<>> THEN [outs |-> <<>>, msgs |-> <<>>, alive |-> TRUE]
  ELSE LET r == Pipe(op, a, Head(evs))
       IN IF ~r.alive THEN r
          ELSE LET rest == Run(op, a, Tail(evs))
               IN [outs |-> r.outs \o rest.outs, msgs |-> r.msgs \o rest.msgs,
                   alive |-> rest.alive]

\* the gateway answers the request of slot s
Respond(s, o) ==
  LET sub == subs[s]
      d == sub.reqs[1]
      evs == SourceEvents(d, o, store)
      r == Run(sub.op, sub.arg, evs)
  IN /\ sub.st = "waiting"
     /\ o = "ok" => Valid(d) /\ (d.doc = "addHero" => FreeIds(store) # {})
     /\ o = "invalid" => ~Valid(d)
     /\ subs' = [subs EXCEPT ![s] = [sub EXCEPT !.st = IF r.alive THEN "live" ELSE "done",
                                                !.src = sub.src \o evs,
                                                !.out = sub.out \o r.outs]]
     /\ messages' = messages \o r.msgs
     /\ store' = IF o = "ok" THEN Apply(d, store) ELSE store
     /\ cache' = IF o = "ok" /\ d.kind = "watchQuery" THEN Resolve(d, store) ELSE cache

\* the cached result of the watched query changes; a live watcher is notified
CacheUpdate ==
  LET sub == subs["reader"]
      d == sub.reqs[1]
  IN /\ sub.reqs # <<>>
     /\ sub.st # "waiting"
     /\ Valid(d)
     /\ Resolve(d, store) # cache
     /\ cache' = Resolve(d, store)
     /\ IF sub.st = "live"
        THEN /\ Len(sub.inbox) < MaxInbox
             /\ Len(sub.out) + Len(sub.inbox) < MaxEmit
             /\ subs' = [subs EXCEPT !["reader"].inbox = Append(@, Resolve(d, store))]
        ELSE UNCHANGED subs
     /\ UNCHANGED <<store, messages>>

\* valueChanges emits the changed result to the live subscriber
Notify ==
  LET sub == subs["reader"]
      d == sub.reqs[1]
      ev == NextEv(Data(d.field, Head(sub.inbox)))
      r == Pipe(sub.op, sub.arg, ev)
  IN /\ sub.st = "live"
     /\ sub.inbox # <<>>
     /\ subs' = [subs EXCEPT !["reader"] = [sub EXCEPT !.st = IF r.alive THEN "live" ELSE "done",
                                                       !.src = Append(sub.src, ev),
                                                       !.inbox = Tail(sub.inbox),
                                                       !.out = sub.out \o r.outs]]
     /\ messages' = messages \o r.msgs
     /\ UNCHANGED <<store, cache>>

\* another client of the remote schema removes a record
RemoteChange ==
  /\ \E i \in Ids :
       /\ store[i] # NoName
       /\ store' = [store EXCEPT ![i] = NoName]
  /\ UNCHANGED <<cache, subs, messages>>

\* the caller unsubscribes
Unsubscribe ==
  /\ subs["reader"].st \in {"waiting", "live"}
  /\ subs' = [subs EXCEPT !["reader"].st = "unsubscribed", !["reader"].inbox = <<>>]
  /\ UNCHANGED <<store, cache, messages>>

Next ==
  \/ getHeroes
  \/ getHeroNo404
  \/ getHero
  \/ searchHeroes
  \/ addHero
  \/ deleteHero
  \/ updateHero
  \/ \E s \in Slots, o \in Outcomes : Respond(s, o)
  \/ CacheUpdate
  \/ Notify
  \/ RemoteChange
  \/ Unsubscribe

Spec == Init /\ [][Next]_vars

\* a notification waiting for a live subscriber is delivered: the gateway
\* broadcasts every cache write to the observers of the watched query
FairSpec == Spec /\ WF_vars(Notify)

\* ---------------------------------------------------------------- claims
R == subs["reader"]
W == subs["writer"]
RN == subs'["reader"]
Last(s) == s[Len(s)]
Blank(q) == \A i \in DOMAIN q : q[i] = " "
WatchOps == {"getHeroes", "getHero", "getHeroNo404"}

\* the default the operations table documents
DocumentedDefault(op) ==
  IF op \in {"getHeroes", "searchHeroes"} THEN ListV(<<>>) ELSE Undefined

HasFragment(m, f) == \E i \in DOMAIN m : m[i] = f

\* `<operation> failed: <error detail>`
FailedForm(m, detail) ==
  /\ Len(m) >= 4
  /\ m[1] = "HeroService: "
  /\ m[Len(m) - 1] = " failed: "
  /\ m[Len(m)] = detail

\* a source event on which map or tap throws, or which is an error itself
Fails(op, ev) ==
  \/ ev.k = "error"
  \/ /\ ev.k = "next"
     /\ \/ ~ev.env.hasData
        \/ op = "getHeroNo404" /\ (ev.env.field # "heroes" \/ Nullish(ev.env.value))
        \/ op = "addHero" /\ (ev.env.field # "addHero" \/ Nullish(ev.env.value))

Healthy(sub) ==
  /\ sub.src # <<>>
  /\ \A i \in DOMAIN sub.src : ~Fails(sub.op, sub.src[i])

EndsWithDefault(sub) ==
  /\ Len(sub.out) >= 2
  /\ SubSeq(sub.out, Len(sub.out) - 1, Len(sub.out))
       = <<Emit(DocumentedDefault(sub.op)), Done>>

\* C1: whenever the gateway call of an operation fails, the caller gets the
\* documented default, exactly one diagnostic is recorded, and that diagnostic
\* contains the name of the operation that was invoked.
C1_FailureLogsOperationName ==
  [][\A s \in Slots :
       (Len(subs'[s].src) > Len(subs[s].src) /\ Last(subs'[s].src).k = "error")
         => /\ subs'[s].out = subs[s].out \o <<Emit(DocumentedDefault(subs[s].op)), Done>>
            /\ Len(messages') = Len(messages) + 1
            /\ HasFragment(Last(messages'), subs[s].op)]_vars

SearchMessage(m) ==
  HasFragment(m, "searchHeroes") \/ HasFragment(m, "found heroes matching \"")

\* C2: for an empty or whitespace-only term searchHeroes delivers the empty
\* sequence, issues no gateway call and records no diagnostic.
C2_BlankSearchIssuesNoCall ==
  (R.op = "searchHeroes" /\ Blank(R.arg.term)) =>
     /\ R.reqs = <<>>
     /\ R.src = <<>>
     /\ R.out = <<Emit(ListV(<<>>)), Done>>
     /\ \A i \in DOMAIN messages : ~SearchMessage(messages[i])

C2_Witness ==
  /\ R.op = "searchHeroes"
  /\ R.arg.term = <<" ", " ">>
  /\ R.out = <<Emit(ListV(<<>>)), Done>>
  /\ messages # <<>>

C4_GetHeroDeliversRequestedHero ==
  [][(/\ R.op = "getHero"
      /\ R.st = "waiting"
      /\ store[R.arg.id] # NoName
      /\ RN.src # <<>>
      /\ RN.src[1].k = "next"
      /\ RN.src[1].env.field = "hero")
     => /\ R.reqs = <<[kind |-> "watchQuery", doc |-> "heroQuery", field |-> "hero",
                       defined |-> {"id"}, id |-> R.arg.id, q |-> <<>>, name |-> NoName]>>
        /\ RN.out = <<Emit(HeroV(R.arg.id, store[R.arg.id]))>>
        /\ messages' = Append(messages, <<"HeroService: ", "fetched", " hero id=",
                                          ToString(R.arg.id)>>)]_vars

C4_Witness ==
  /\ R.op = "getHero"
  /\ R.arg.id = 2
  /\ R.out # <<>>
  /\ R.out[1].e = "next"
  /\ R.out[1].v.t = "hero"
  /\ R.out[1].v.id = 2
  /\ \E i \in DOMAIN messages :
       messages[i] = <<"HeroService: ", "fetched", " hero id=", "2">>

\* a failure of the remote side: transport, schema error or malformed envelope
RemoteFailure(ev) ==
  ev \in {ErrorEv("Network error"), ErrorEv("GraphQL error"),
          NextEv(NullData), NextEv(NoField)}

\* C5: getHeroNo404(id) delivers the Hero when the remote store holds a record
\* with that id; undefined only when the call fails or the id is not found.
C5_LenientGetDeliversHero ==
  [][(/\ R.op = "getHeroNo404"
      /\ R.st = "waiting"
      /\ store[R.arg.id] # NoName
      /\ RN.src # <<>>
      /\ ~RemoteFailure(RN.src[1]))
     => /\ RN.out # <<>>
        /\ RN.out[1] = Emit(HeroV(R.arg.id, store[R.arg.id]))]_vars

Added ==
  /\ W.op = "addHero"
  /\ W.out # <<>>
  /\ W.out[1].e = "next"
  /\ W.out[1].v.t = "hero"

AddedHero == W.out[1].v

InList(h, v) == v.t = "list" /\ \E i \in DOMAIN v.items : v.items[i] = h

DeliveredAdded ==
  /\ Added
  /\ \E k \in DOMAIN R.out : R.out[k].e = "next" /\ InList(AddedHero, R.out[k].v)

\* C6: with a caller subscribed to getHeroes() and addHero succeeded, once the
\* cached result of the listing query includes the new record the subscriber is
\* eventually invoked with a sequence that contains it.
C6_AddedHeroReachesList ==
  (/\ R.op = "getHeroes"
   /\ Healthy(R)
   /\ R.st # "unsubscribed"
   /\ Added
   /\ InList(AddedHero, cache))
  ~> (R.st = "unsubscribed" \/ DeliveredAdded)

C6_Witness ==
  /\ R.op = "getHeroes"
  /\ R.st = "live"
  /\ Added
  /\ Len(R.out) >= 2
  /\ ~InList(AddedHero, R.out[1].v)
  /\ InList(AddedHero, R.out[2].v)

\* C7: for a term with a non-whitespace character searchHeroes issues exactly
\* one gateway call, searchQuery with q equal to the term as passed, and the
\* caller receives data.search.
C7_SearchSendsTermUnchanged ==
  (R.op = "searchHeroes" /\ ~Blank(R.arg.term)) =>
     /\ R.reqs = <<[kind |-> "watchQuery", doc |-> "searchQuery", field |-> "search",
                    defined |-> {"q"}, id |-> 0, q |-> R.arg.term, name |-> NoName]>>
     /\ \A k \in DOMAIN R.src :
          (R.src[k].k = "next" /\ R.src[k].env.hasData /\ R.src[k].env.field = "search")
            => k \in DOMAIN R.out /\ R.out[k] = Emit(R.src[k].env.value)

C7_Witness ==
  /\ R.op = "searchHeroes"
  /\ R.arg.term = <<" ", "a">>
  /\ R.src # <<>>
  /\ R.src[1].k = "next"
  /\ R.src[1].env.field = "search"
  /\ R.out[1] = Emit(R.src[1].env.value)

FullHero(v) == v.t = "hero" /\ v.id \in Ids /\ v.name \in Names
FullList(v) == v.t = "list" /\ \A i \in DOMAIN v.items : FullHero(v.items[i])

\* C8: every value delivered to a caller is a full Hero, a sequence of full
\* Heroes, or the absence sentinel (empty sequence or undefined).
C8_OnlyHeroesOrSentinels ==
  \A s \in Slots : \A i \in DOMAIN subs[s].out :
    subs[s].out[i].e = "next" =>
      \/ FullHero(subs[s].out[i].v)
      \/ FullList(subs[s].out[i].v)
      \/ subs[s].out[i].v = Undefined

ResponseHad(sub, v) ==
  \E k \in DOMAIN sub.src :
    sub.src[k].k = "next" /\ sub.src[k].env.hasData /\ sub.src[k].env.value = v

\* C8 as amended: every delivered value is a full Hero, a sequence of full
\* Heroes, [] or undefined, except that deleteHero delivers the acknowledgement
\* of the server (a boolean) and getHero and updateHero deliver null when the
\* response holds null for the record; no partial record is delivered.
C8_HeroesSentinelsAckOrNull ==
  \A s \in Slots : \A i \in DOMAIN subs[s].out :
    subs[s].out[i].e = "next" =>
      \/ FullHero(subs[s].out[i].v)
      \/ FullList(subs[s].out[i].v)
      \/ subs[s].out[i].v = Undefined
      \/ /\ subs[s].out[i].v.t = "bool"
         /\ subs[s].op = "deleteHero"
         /\ ResponseHad(subs[s], subs[s].out[i].v)
      \/ /\ subs[s].out[i].v = Null
         /\ subs[s].op \in {"getHero", "updateHero"}
         /\ ResponseHad(subs[s], Null)

C8_Witness ==
  /\ W.op = "deleteHero"
  /\ W.out = <<Emit(BoolV(TRUE)), Done>>
  /\ R.op = "getHero"
  /\ R.out # <<>>
  /\ Last(R.out) = Emit(Null)

NotFound == NextEv(Data("hero", Null))

C10_EveryCacheChangeReinvokes ==
  [][(/\ R.op \in WatchOps
      /\ R.out # <<>>
      /\ R.st # "unsubscribed"
      /\ cache' # cache)
     => RN.inbox = Append(R.inbox, cache')]_vars

C10_StaysLive ==
  (R.op \in WatchOps /\ Healthy(R) /\ R.st # "unsubscribed") => R.st = "live"

C10_Step ==
  /\ (R.op \in WatchOps /\ R.st = "live" /\ cache' # cache)
       => RN.inbox = Append(R.inbox, cache')
  /\ (R.op \in WatchOps /\ R.st = "live" /\ Len(RN.out) > Len(R.out))
       => /\ R.inbox # <<>>
          /\ RN.out = Append(R.out, Emit(Head(R.inbox)))
  /\ (R.op \in WatchOps /\ R.st = "done") => RN.out = R.out /\ RN.inbox = R.inbox

\* C10 as amended: a subscription of getHeroes, getHero or getHeroNo404 stays
\* live after a result only while no emission on it has failed; while it is
\* live and not unsubscribed every change of the cached result re-invokes the
\* consumer with the new value; after a failed emission was replaced by the
\* default the stream has completed and the consumer is not invoked again.
C10_ReinvokedWhileNoEmissionFailed ==
  /\ []C10_StaysLive
  /\ [][C10_Step]_vars
  /\ \A n \in 0..MaxEmit :
       (R.op \in WatchOps /\ R.st = "live" /\ R.inbox # <<>> /\ Len(R.out) = n)
         ~> (R.st = "unsubscribed" \/ Len(R.out) > n)

C10_Witness ==
  /\ R.op = "getHeroes"
  /\ R.st = "live"
  /\ Len(R.out) >= 3
  /\ R.out[2] # R.out[1]
  /\ R.out[3] # R.out[2]

====
